---- MODULE Spec2Model ----
(***************************************************************************)
(* Model of Node-In-Layers/core: src/src/globals.ts (the globals services  *)
(* and features: loadConfig, configureLogging, getGlobals, loadGlobals)    *)
(* and the library helpers that follow it in the same file (validateConfig,*)
(* getLayersUnavailable, isConfig).                                        *)
(***************************************************************************)
EXTENDS Integers, Sequences, FiniteSets, TLC

(***************************************************************************)
(* JavaScript values.  Every value is a tagged record, the tag k being the *)
(* kind: undef, str, num, fn, arr, obj, ref.  An obj carries a function    *)
(* from its own keys to values, an arr a sequence of values, a ref the     *)
(* identity of a heap object that is shared by reference.                  *)
(***************************************************************************)
Undef == [k |-> "undef"]
Str(s) == [k |-> "str", s |-> s]
Num(n) == [k |-> "num", n |-> n]
Arr(a) == [k |-> "arr", a |-> a]
Obj(o) == [k |-> "obj", o |-> o]
Ref(id) == [k |-> "ref", id |-> id]
\* A function value; b is what calling it does: [throws, v].
Fn(b) == [k |-> "fn", b |-> b]
Returns(v) == [throws |-> FALSE, v |-> v, async |-> FALSE]
ReturnsAsync(v) == [throws |-> FALSE, v |-> v, async |-> TRUE]
Throws(e) == [throws |-> TRUE, v |-> Str(e), async |-> FALSE]

EmptyFun == [x \in {} |-> Undef]
EmptyObj == Obj(EmptyFun)
EmptyArr == Arr(<<>>)

Keys(v) == IF v.k = "obj" THEN DOMAIN v.o ELSE {}
Has(v, key) == key \in Keys(v)

\* obj[key] of JavaScript: undefined when the key is missing or obj has no keys.
Prop(v, key) == IF Has(v, key) THEN v.o[key] ELSE Undef

\* Boolean(v)
Truthy(v) ==
  CASE v.k = "undef" -> FALSE
    [] v.k = "str" -> v.s # ""
    [] v.k = "num" -> v.n # 0
    [] OTHER -> TRUE

\* typeof v
TypeOf(v) ==
  CASE v.k = "undef" -> "undefined"
    [] v.k = "str" -> "string"
    [] v.k = "num" -> "number"
    [] v.k = "fn" -> "function"
    [] OTHER -> "object"

\* lodash get(object, path): the value at the path, undefined when a step is missing.
RECURSIVE get(_, _)
get(v, path) ==
  IF path = <<>> THEN v
  ELSE IF Has(v, Head(path)) THEN get(v.o[Head(path)], Tail(path))
  ELSE Undef

Max(a, b) == IF a >= b THEN a ELSE b

(***************************************************************************)
(* lodash merge(object, source): recursive merge of source into object.    *)
(* Source values that are undefined are skipped when the destination has   *)
(* the key; plain objects and arrays are merged recursively into a         *)
(* destination of the same kind and copied over anything else; every other *)
(* value is assigned.                                                      *)
(***************************************************************************)
\* A merge in which the destination's value wins over the source's.
mergeValueKeepingFirst(has, objValue, srcValue) ==
  IF has THEN objValue ELSE srcValue

RECURSIVE merge(_, _)
RECURSIVE mergeValue(_, _, _)
mergeValue(has, objValue, srcValue) ==
  CASE srcValue.k = "obj" ->
         IF has /\ objValue.k = "obj" THEN merge(objValue, srcValue)
         \* an object held by reference is merged into in place and stays the value
         ELSE IF has /\ objValue.k = "ref" THEN objValue
         ELSE merge(EmptyObj, srcValue)
    [] srcValue.k = "arr" ->
         IF has /\ objValue.k = "arr" THEN merge(objValue, srcValue)
         ELSE merge(EmptyArr, srcValue)
    [] srcValue.k = "undef" -> IF has THEN objValue ELSE Undef
    [] OTHER -> srcValue

merge(object, source) ==
  IF source.k \notin {"obj", "arr"} THEN object
  ELSE IF object.k = "arr"
  THEN Arr([i \in 1..Max(Len(object.a), Len(source.a)) |->
              IF i > Len(source.a) THEN object.a[i]
              ELSE mergeValue(i <= Len(object.a),
                              IF i <= Len(object.a) THEN object.a[i] ELSE Undef,
                              source.a[i])])
  ELSE Obj([key \in Keys(object) \cup Keys(source) |->
              IF ~Has(source, key) THEN object.o[key]
              ELSE mergeValue(Has(object, key), Prop(object, key), source.o[key])])

(***************************************************************************)
(* Config validation (libs).                                               *)
(***************************************************************************)
\* CoreNamespace.root, the key of the core's own section of a Config.
CoreNamespaceRoot == "@node-in-layers/core"

Ok == "ok"

\* _getNamespaceProperty(namespace, property): the lodash path namespace.property
_getNamespaceProperty(namespace, property) == <<namespace, property>>

\* The text of a path as it appears in a message.
PathText(path) ==
  IF Len(path) = 1 THEN path[1] ELSE path[1] \o "." \o path[2]

configHasKey(key, config) ==
  IF get(config, key) = Undef
  THEN PathText(key) \o " was not found in config"
  ELSE Ok

configItemIsArray(key, config) ==
  IF get(config, key).k # "arr"
  THEN PathText(key) \o " must be an array"
  ELSE Ok

configItemIsType(key, type, config) ==
  IF TypeOf(get(config, key)) # type
  THEN PathText(key) \o " must be of type " \o type
  ELSE Ok

\* config[root]?.apps.find(app => { if (app.name === undefined) throw ... })
allAppsHaveAName(config) ==
  LET root == Prop(config, CoreNamespaceRoot)
      apps == Prop(root, "apps")
  IN IF root = Undef THEN Ok
     ELSE IF apps.k # "arr" THEN "TypeError: apps.find is not a function"
     ELSE IF \E i \in 1..Len(apps.a) : Prop(apps.a[i], "name") = Undef
          THEN "A configured app does not have a name."
          ELSE Ok

\* The checks with the types of logLevel and logFormat tested before the apps' names.
_configItemsToCheckNamesLast(config) ==
  << configHasKey(<<"environment">>, config),
     configHasKey(<<"systemName">>, config),
     configHasKey(_getNamespaceProperty(CoreNamespaceRoot, "apps"), config),
     configItemIsArray(_getNamespaceProperty(CoreNamespaceRoot, "apps"), config),
     configHasKey(_getNamespaceProperty(CoreNamespaceRoot, "layerOrder"), config),
     configItemIsArray(_getNamespaceProperty(CoreNamespaceRoot, "layerOrder"), config),
     configItemIsType(_getNamespaceProperty(CoreNamespaceRoot, "logLevel"), "string", config),
     configItemIsType(_getNamespaceProperty(CoreNamespaceRoot, "logFormat"), "string", config),
     allAppsHaveAName(config) >>

\* The checks, in the order of the array.
_configItemsToCheck(config) ==
  << configHasKey(<<"environment">>, config),
     configHasKey(<<"systemName">>, config),
     configHasKey(_getNamespaceProperty(CoreNamespaceRoot, "apps"), config),
     configItemIsArray(_getNamespaceProperty(CoreNamespaceRoot, "apps"), config),
     configHasKey(_getNamespaceProperty(CoreNamespaceRoot, "layerOrder"), config),
     configItemIsArray(_getNamespaceProperty(CoreNamespaceRoot, "layerOrder"), config),
     allAppsHaveAName(config),
     configItemIsType(_getNamespaceProperty(CoreNamespaceRoot, "logLevel"), "string", config),
     configItemIsType(_getNamespaceProperty(CoreNamespaceRoot, "logFormat"), "string", config) >>

\* forEach over the checks: the first one that throws ends the call with its error.
RECURSIVE forEachCheck(_, _)
forEachCheck(checks, i) ==
  IF i > Len(checks) THEN Ok
  ELSE IF checks[i] # Ok THEN checks[i]
  ELSE forEachCheck(checks, i + 1)

validateConfig(config) == forEachCheck(_configItemsToCheck(config), 1)

\* isConfig testing the length of layerOrder instead of its presence.
isConfigByLength(obj) ==
  LET layerOrder == get(obj, _getNamespaceProperty(CoreNamespaceRoot, "layerOrder"))
  IN IF TypeOf(obj) = "string" THEN FALSE
     ELSE layerOrder.k = "arr" /\ Len(layerOrder.a) > 0

isConfig(obj) ==
  IF TypeOf(obj) = "string" THEN FALSE
  ELSE Truthy(get(obj, _getNamespaceProperty(CoreNamespaceRoot, "layerOrder")))

(***************************************************************************)
(* getLayersUnavailable (libs).                                            *)
(***************************************************************************)
\* Names every plain object inherits from Object.prototype; reading one of
\* them from an object that has no own key of that name yields a function.
ObjectPrototypeNames == {"toString"}

\* allLayers.slice(index + 1), as an array of strings
slice(allLayers, index) ==
  Arr([j \in 1..(Len(allLayers) - index) |-> Str(allLayers[index + j])])

\* allLayers.reduce((acc, layer, index) => merge(acc, {[layer]: slice}), {})
RECURSIVE layerToChoices(_, _)
layerToChoices(allLayers, n) ==
  IF n = 0 THEN EmptyObj
  ELSE merge(layerToChoices(allLayers, n - 1),
             Obj((allLayers[n] :> slice(allLayers, n))))

\* layerToChoices[layer]: an own key, else an inherited one, else undefined.
lookupChoices(allLayers, layer) ==
  LET table == layerToChoices(allLayers, Len(allLayers))
  IN IF Has(table, layer) THEN table.o[layer]
     ELSE IF layer \in ObjectPrototypeNames THEN Fn(Returns(Str("[object Object]")))
     ELSE Undef

\* The lookup function returned by getLayersUnavailable(allLayers).
getLayersUnavailable(allLayers, layer) ==
  LET choices == lookupChoices(allLayers, layer)
  IN IF ~Truthy(choices)
     THEN Throws(layer \o " is not a valid layer choice")
     ELSE Returns(choices)

(***************************************************************************)
(* Bounds of the model.                                                    *)
(***************************************************************************)
\* Number of loadGlobals calls of one process (they may overlap).
MaxCalls == 2
\* Longest list of apps of a config in the fold specification.
MaxApps == 2
\* Longest list of layers given to getLayersUnavailable.
MaxLayers == 3

Calls == 1..MaxCalls

(***************************************************************************)
(* State.                                                                  *)
(***************************************************************************)
VARIABLES
  files,      \* the working directory: extension -> module of config.<env>.<ext>, or NoFile
  cwd,        \* the current working directory of the process
  chdirs,     \* number of process.chdir calls made so far
  lookups,    \* number of _findConfigPath calls made so far
  imports,    \* the extensions import() was called for, in order
  memo,       \* the cell of memoizeValue around _loadConfig
  loader,     \* the position of the one running _loadConfig body
  heap,       \* the Config objects, by identity: 0 the loaded one, c the one given to call c
  logger,     \* the process-wide loglevel logger
  call,       \* the loadGlobals calls
  candidate,  \* validateConfig alone: the candidate
  verdict,    \* validateConfig alone: the outcome
  layers,     \* getLayersUnavailable alone: allLayers
  asked,      \* getLayersUnavailable alone: the layers looked up so far
  answer      \* getLayersUnavailable alone: the outcome of the last lookup

vars == << files, cwd, chdirs, lookups, imports, memo, loader, heap, logger, call,
           candidate, verdict, layers, asked, answer >>
procVars == << files, cwd, chdirs, lookups, imports, memo, loader, heap, logger, call >>
validateVars == << candidate, verdict >>
layerVars == << layers, asked, answer >>

NoFile == Undef
LoadedId == 0
LoggerId == 0 - 1
FsId == 0 - 2
NoId == 0 - 9

\* services.create props
workingDirectory == "wd"
environment == "env"

(***************************************************************************)
(* Logging (globals services).                                             *)
(***************************************************************************)
\* LogFormat
LogFormats == {"json", "simple", "full"}

\* loglevel's levels; setLevel takes a level name in either case.
LevelNumber(name) ==
  CASE name \in {"TRACE", "trace"} -> 0
    [] name \in {"DEBUG", "debug"} -> 1
    [] name \in {"INFO", "info"} -> 2
    [] name \in {"WARN", "warn"} -> 3
    [] name \in {"ERROR", "error"} -> 4
    [] name \in {"SILENT", "silent"} -> 5
    [] OTHER -> 0 - 1

\* The own properties of the loglevel object that a merge into it can reach:
\* log.levels.
LoglevelProps ==
  Obj(("levels" :> Obj([name \in {"TRACE", "DEBUG", "INFO", "WARN", "ERROR", "SILENT"} |->
                          Num(LevelNumber(name))])))

\* log.setLevel(level): throws on a level it does not know, else sets the threshold.
setLevel(lg, level) ==
  IF level.k = "str" /\ LevelNumber(level.s) >= 0
  THEN [throws |-> FALSE, err |-> Ok, logger |-> [lg EXCEPT !.level = LevelNumber(level.s)]]
  ELSE [throws |-> TRUE, err |-> "log.setLevel() called with invalid level", logger |-> lg]

\* useJsonLogFormat / useSimpleLogFormat / useFullLogFormat: the new
\* methodFactory closes over the one installed before it (originalFactory)
\* and hands its own output to the method that one builds.
useLogFormat(lg, format) ==
  [lg EXCEPT !.methodFactory = Append(@, format)]

\* A configureLogging that sets the level only once the format is installed.
configureLoggingLevelLast(lg, config) ==
  LET root == Prop(config, CoreNamespaceRoot)
      format == Prop(root, "logFormat")
  IN IF format.k = "str" /\ format.s \in LogFormats
     THEN LET level == setLevel(useLogFormat(lg, format.s), Prop(root, "logLevel"))
          IN IF level.throws THEN [level EXCEPT !.logger = lg] ELSE level
     ELSE [throws |-> TRUE,
           err |-> "LogFormat " \o (IF format.k = "str" THEN format.s ELSE "?")
                     \o " is not supported",
           logger |-> lg]

configureLogging(lg, config) ==
  LET root == Prop(config, CoreNamespaceRoot)
      level == setLevel(lg, Prop(root, "logLevel"))
      format == Prop(root, "logFormat")
  IN IF level.throws THEN level
     ELSE IF format.k = "str" /\ format.s \in LogFormats
          THEN [throws |-> FALSE, err |-> Ok, logger |-> useLogFormat(level.logger, format.s)]
          ELSE [throws |-> TRUE,
                err |-> "LogFormat " \o (IF format.k = "str" THEN format.s ELSE "?")
                          \o " is not supported",
                logger |-> level.logger]

\* The formatters a logged message passes through, in the order they are
\* applied to it: the method of the factory installed last runs first and
\* passes its text to the method of the factory installed before it.
RECURSIVE Reverse(_)
Reverse(q) == IF q = <<>> THEN <<>> ELSE Append(Reverse(Tail(q)), Head(q))
Rendering(lg) == Reverse(lg.methodFactory)

(***************************************************************************)
(* Config loading (globals services).                                      *)
(***************************************************************************)
\* The extensions tried in the opposite order.
extensionsJsFirst == <<"js", "mjs">>

extensions == <<"mjs", "js">>

\* extensions.map(resolve).find(existsSync): the first extension whose file exists.
_findConfigPath(fs) ==
  IF \E i \in 1..Len(extensions) : fs[extensions[i]] # NoFile
  THEN extensions[CHOOSE i \in 1..Len(extensions) :
                    /\ fs[extensions[i]] # NoFile
                    /\ \A j \in 1..(i - 1) : fs[extensions[j]] = NoFile]
  ELSE "none"

\* const func = module.default ? module.default : module
moduleFunc(module) ==
  IF Truthy(Prop(module, "default")) THEN module.o["default"] ELSE module

\* func(): what calling the value does; calling a value that is no function throws.
callFunc(func) ==
  IF func.k = "fn" THEN func.b ELSE Throws("TypeError: func is not a function")

\* getGlobals without the test for app.globals.
getGlobalsUnguarded(app) ==
  [invokes |-> TRUE, outcome |-> callFunc(Prop(Prop(app, "globals"), "create"))]

\* getGlobals(commonGlobals, app): the app's factory when it declares one.
getGlobals(app) ==
  IF Truthy(Prop(app, "globals"))
  THEN [invokes |-> TRUE, outcome |-> callFunc(Prop(Prop(app, "globals"), "create"))]
  ELSE [invokes |-> FALSE, outcome |-> Returns(EmptyObj)]

\* getNodeServices(): merge({fs: nodeFS}, nodeOverrides || {})
nodeOverrides == Undef
getNodeServices ==
  merge(Obj(("fs" :> Ref(FsId))), IF Truthy(nodeOverrides) THEN nodeOverrides ELSE EmptyObj)

getConstants ==
  Obj(("workingDirectory" :> Str(workingDirectory)) @@ ("environment" :> Str(environment)))

(***************************************************************************)
(* Inputs: apps, configs, config modules.                                  *)
(***************************************************************************)
Rec1(k1, v1) == Obj((k1 :> v1))
Rec2(k1, v1, k2, v2) == Obj((k1 :> v1) @@ (k2 :> v2))

App(name, outcome) ==
  Rec2("name", Str(name), "globals", Rec1("create", Fn(outcome)))
AppWithoutGlobals(name) == Rec1("name", Str(name))

Root(apps, logLevel, logFormat) ==
  Obj(("apps" :> Arr(apps)) @@ ("layerOrder" :> Arr(<<Str("services"), Str("features")>>))
      @@ ("logLevel" :> logLevel) @@ ("logFormat" :> logFormat))

Config(apps, logLevel, logFormat) ==
  Obj(("environment" :> Str(environment)) @@ ("systemName" :> Str("sys"))
      @@ (CoreNamespaceRoot :> Root(apps, logLevel, logFormat)))

\* A Config but for its systemName.
WithoutSystemName(config) ==
  Obj([key \in Keys(config) \ {"systemName"} |-> config.o[key]])

\* The contributions of the documented example.
XY == Rec2("x", Num(2), "y", Num(3))
X1 == Rec1("x", Num(1))

ConfigJson == Config(<<App("app1", Returns(XY)), App("app2", ReturnsAsync(X1))>>,
                     Str("INFO"), Str("json"))
ConfigSimple == Config(<<AppWithoutGlobals("app1"), App("app2", Throws("app2 failed")),
                         App("app3", Returns(X1))>>, Str("debug"), Str("simple"))
ConfigFull == Config(<<App("app1", Returns(X1))>>, Str("ERROR"), Str("full"))
\* A config of no layers and of a format that is not a LogFormat.
ConfigXml ==
  Obj(("environment" :> Str(environment)) @@ ("systemName" :> Str("sys"))
      @@ (CoreNamespaceRoot :>
            Obj(("apps" :> Arr(<<App("app1", Returns(X1))>>)) @@ ("layerOrder" :> EmptyArr)
                @@ ("logLevel" :> Str("TRACE")) @@ ("logFormat" :> Str("xml")))))
ConfigInvalid == WithoutSystemName(ConfigFull)
NotAConfig == Rec1("environment", Str(environment))

\* What a caller passes to loadGlobals.
Arguments ==
  {Str(environment), ConfigJson, ConfigSimple, ConfigXml, ConfigInvalid, NotAConfig}

\* The module of a config file: its default export is a factory or a value.
Module(defaultExport) == Rec1("default", defaultExport)

World(mjs, js) == ("mjs" :> mjs) @@ ("js" :> js)

\* The working directories: which config files exist and what they export.
Worlds ==
  { World(NoFile, NoFile),
    World(NoFile, Module(Fn(Returns(ConfigJson)))),
    World(Module(ConfigFull), NoFile),
    World(Module(Fn(ReturnsAsync(ConfigSimple))), Module(Fn(Returns(ConfigJson)))),
    World(Module(Fn(Returns(ConfigInvalid))), NoFile),
    World(Module(Fn(Throws("config factory failed"))), NoFile) }

(***************************************************************************)
(* Initial states.                                                         *)
(***************************************************************************)
NewCall(arg) ==
  [pc |-> "idle", arg |-> arg, viaLoader |-> FALSE, sawMemo |-> "", got |-> "",
   cfg |-> NoId, configured |-> FALSE,
   apps |-> <<>>, commonGlobals |-> Undef, acc |-> Undef, idx |-> 0,
   invoked |-> <<>>, merged |-> <<>>, passed |-> <<>>,
   dep |-> Returns(Undef), result |-> Undef, err |-> Ok]

\* A call slot that no caller uses.
Unused == [NewCall(Undef) EXCEPT !.pc = "unused"]

InitProcess(fs, args) ==
  /\ files = fs
  /\ cwd = "start"
  /\ chdirs = 0
  /\ lookups = 0
  /\ imports = <<>>
  /\ memo = [state |-> "empty", v |-> Undef]
  /\ loader = [pc |-> "none", path |-> "none", pending |-> Returns(Undef)]
  /\ heap = [i \in 0..MaxCalls |->
               IF i \in Calls /\ args[i].k = "obj" THEN args[i] ELSE Undef]
  /\ logger = [level |-> 3, methodFactory |-> <<>>, props |-> LoglevelProps]
  /\ call = [c \in Calls |-> IF args[c] = Undef THEN Unused ELSE NewCall(args[c])]

InitValidateIdle == candidate = Undef /\ verdict = "idle"
InitLayersIdle == layers = <<>> /\ asked = "" /\ answer = Returns(Undef)

Init ==
  /\ \E fs \in Worlds, args \in [Calls -> Arguments] : InitProcess(fs, args)
  /\ InitValidateIdle
  /\ InitLayersIdle

(***************************************************************************)
(* loadConfig: the memoized _loadConfig.                                   *)
(***************************************************************************)
\* memoizeValue(method): a call runs method only while the cell is empty;
\* every other call gets what the first run produced or is producing.
memoizeValue(m) == m.state # "empty"

\* _loadConfig left unmemoized: every call runs the body.
_loadConfigUnmemoized(m) == FALSE

\* const _loadConfig = memoizeValue(async () => {...}): TRUE when a call of
\* _loadConfig is served by the cell instead of running the body.
_loadConfigCached(m) == memoizeValue(m)

Rejected(e) == [state |-> "rejected", v |-> Str(e)]

\* The body of _loadConfig up to its first await (the import).
_loadConfigBegin ==
  LET fullPath == _findConfigPath(files)
  IN /\ cwd' = workingDirectory
     /\ chdirs' = chdirs + 1
     /\ lookups' = lookups + 1
     /\ IF fullPath = "none"
        THEN /\ memo' = Rejected("Could not find a config." \o environment
                                    \o " for mjs, or js.")
             /\ loader' = [loader EXCEPT !.pc = "done"]
             /\ UNCHANGED imports
        ELSE /\ memo' = [state |-> "pending", v |-> Undef]
             /\ loader' = [loader EXCEPT !.pc = "import", !.path = fullPath]
             /\ imports' = Append(imports, fullPath)

loadConfig ==
  IF _loadConfigCached(memo)
  THEN UNCHANGED << cwd, chdirs, lookups, imports, memo, loader >>
  ELSE _loadConfigBegin

\* The import settles: func is taken from the module and called.
ImportResolves ==
  /\ loader.pc = "import"
  /\ LET outcome == callFunc(moduleFunc(files[loader.path]))
     IN IF outcome.throws
        THEN /\ memo' = Rejected(outcome.v.s)
             /\ loader' = [loader EXCEPT !.pc = "done"]
        ELSE /\ loader' = [loader EXCEPT !.pc = "factory", !.pending = outcome]
             /\ UNCHANGED memo
  /\ UNCHANGED << files, cwd, chdirs, lookups, imports, heap, logger, call >>
  /\ UNCHANGED << validateVars, layerVars >>

\* await func() settles: the config is validated and returned.
FactoryResolves ==
  /\ loader.pc = "factory"
  /\ LET config == loader.pending.v
         checked == validateConfig(config)
     IN /\ heap' = [heap EXCEPT ![LoadedId] = config]
        /\ memo' = IF checked # Ok THEN Rejected(checked)
                   ELSE [state |-> "resolved", v |-> Ref(LoadedId)]
        /\ loader' = [loader EXCEPT !.pc = "done"]
  /\ UNCHANGED << files, cwd, chdirs, lookups, imports, logger, call >>
  /\ UNCHANGED << validateVars, layerVars >>

(***************************************************************************)
(* loadGlobals (globals features).                                         *)
(***************************************************************************)
\* isConfig(environmentOrConfig) ? environmentOrConfig : loadConfig(), up to the await.
LoadGlobals(c) ==
  /\ call[c].pc = "idle"
  /\ IF isConfig(call[c].arg)
     THEN /\ call' = [call EXCEPT ![c].pc = "awaitConfig", ![c].cfg = c]
          /\ UNCHANGED << cwd, chdirs, lookups, imports, memo, loader >>
     ELSE /\ call' = [call EXCEPT ![c].pc = "awaitConfig", ![c].viaLoader = TRUE,
                                  ![c].sawMemo = memo.state]
          /\ loadConfig
  /\ UNCHANGED << files, heap, logger >>
  /\ UNCHANGED << validateVars, layerVars >>

Fail(c, e) == [call EXCEPT ![c].pc = "failed", ![c].err = e]

\* What the awaited loadConfig() settled with, for a call that awaited it.
Settled(c) == IF call[c].viaLoader THEN memo.state ELSE ""

\* loadGlobals building the common globals before it validates the config.
ResumeConfiguringFirst(c) ==
  /\ call[c].pc = "awaitConfig"
  /\ call[c].viaLoader => memo.state \in {"resolved", "rejected"}
  /\ IF call[c].viaLoader /\ memo.state = "rejected"
     THEN call' = [Fail(c, memo.v.s) EXCEPT ![c].got = Settled(c)] /\ UNCHANGED logger
     ELSE LET id == IF call[c].viaLoader THEN memo.v.id ELSE call[c].cfg
              config == heap[id]
              checked == validateConfig(config)
              logging == configureLogging(logger, config)
          IN /\ logger' = logging.logger
             /\ call' = [Fail(c, IF logging.throws THEN logging.err ELSE checked) EXCEPT
                           ![c].configured = TRUE, ![c].got = Settled(c), ![c].cfg = id]
  /\ UNCHANGED << files, cwd, chdirs, lookups, imports, memo, loader, heap >>
  /\ UNCHANGED << validateVars, layerVars >>

\* The await of the config settles; validateConfig, the common globals and
\* the reduce over the apps follow without a suspension.
ResumeWithConfig(c) ==
  /\ call[c].pc = "awaitConfig"
  /\ call[c].viaLoader => memo.state \in {"resolved", "rejected"}
  /\ IF call[c].viaLoader /\ memo.state = "rejected"
     THEN call' = [Fail(c, memo.v.s) EXCEPT ![c].got = Settled(c)] /\ UNCHANGED logger
     ELSE LET id == IF call[c].viaLoader THEN memo.v.id ELSE call[c].cfg
              config == heap[id]
              checked == validateConfig(config)
              logging == configureLogging(logger, config)
          IN IF checked # Ok
             THEN /\ call' = [Fail(c, checked) EXCEPT ![c].got = Settled(c), ![c].cfg = id]
                  /\ UNCHANGED logger
             ELSE /\ logger' = logging.logger
                  /\ IF logging.throws
                     THEN call' = [Fail(c, logging.err) EXCEPT
                            ![c].configured = TRUE, ![c].got = Settled(c), ![c].cfg = id]
                     ELSE call' = [call EXCEPT
                            ![c].pc = "fold",
                            ![c].got = Settled(c),
                            ![c].cfg = id,
                            ![c].configured = TRUE,
                            ![c].commonGlobals =
                               Obj(("config" :> Ref(id)) @@ ("log" :> Ref(LoggerId))
                                   @@ ("node" :> getNodeServices)
                                   @@ ("constants" :> getConstants)),
                            ![c].apps = get(config, <<CoreNamespaceRoot, "apps">>).a,
                            ![c].acc = EmptyObj,
                            ![c].idx = 1]
  /\ UNCHANGED << files, cwd, chdirs, lookups, imports, memo, loader, heap >>
  /\ UNCHANGED << validateVars, layerVars >>

\* What a holder of the object sees: the objects it holds by reference read
\* as they are now.
Deref(v) ==
  IF v.k = "ref"
  THEN IF v.id = LoggerId THEN logger.props
       ELSE IF v.id \in 0..MaxCalls THEN heap[v.id] ELSE v
  ELSE v
Seen(object) ==
  IF object.k = "obj" THEN Obj([key \in Keys(object) |-> Deref(object.o[key])]) ELSE object

\* The callback of app idx gets the accumulator and calls getGlobals with
\* commonGlobals; passed records what each factory was given.
FoldInvoke(c) ==
  /\ call[c].pc = "fold"
  /\ call[c].idx <= Len(call[c].apps)
  /\ LET g == getGlobals(call[c].apps[call[c].idx])
     IN call' = [call EXCEPT
           ![c].pc = "awaitDep",
           ![c].invoked = IF g.invokes THEN Append(@, call[c].idx) ELSE @,
           ![c].passed = IF g.invokes THEN Append(@, Seen(call[c].commonGlobals)) ELSE @,
           ![c].dep = g.outcome]
  /\ UNCHANGED << files, cwd, chdirs, lookups, imports, memo, loader, heap, logger >>
  /\ UNCHANGED << validateVars, layerVars >>

\* merge(acc, dep) where acc holds the loglevel object, which an earlier dep
\* gave by reference (it is no plain object, so merge assigned it as it is):
\* a record that dep has under the same key is merged into that object.
mergeIntoLogger(lg, acc, dep) ==
  IF Prop(acc, "log") = Ref(LoggerId) /\ Prop(dep, "log").k = "obj"
  THEN [lg EXCEPT !.props = merge(@, dep.o["log"])]
  ELSE lg

\* A fold that skips a failed contribution and goes on.
FoldMergeSkipFailed(c) ==
  /\ call[c].pc = "awaitDep"
  /\ call' = [call EXCEPT
        ![c].pc = "fold",
        ![c].acc = IF call[c].dep.throws THEN @ ELSE merge(@, call[c].dep.v),
        ![c].merged = Append(@, call[c].idx),
        ![c].idx = @ + 1]
  /\ logger' = IF call[c].dep.throws THEN logger
               ELSE mergeIntoLogger(logger, call[c].acc, call[c].dep.v)
  /\ UNCHANGED << files, cwd, chdirs, lookups, imports, memo, loader, heap >>
  /\ UNCHANGED << validateVars, layerVars >>

\* The contribution settles and is merged into the accumulator.
FoldMerge(c) ==
  /\ call[c].pc = "awaitDep"
  /\ IF call[c].dep.throws
     THEN call' = Fail(c, call[c].dep.v.s)
     ELSE call' = [call EXCEPT
            ![c].pc = "fold",
            ![c].acc = merge(@, call[c].dep.v),
            ![c].merged = Append(@, call[c].idx),
            ![c].idx = @ + 1]
  /\ logger' = IF call[c].dep.throws THEN logger
               ELSE mergeIntoLogger(logger, call[c].acc, call[c].dep.v)
  /\ UNCHANGED << files, cwd, chdirs, lookups, imports, memo, loader, heap >>
  /\ UNCHANGED << validateVars, layerVars >>

\* A return that lets the common globals win over the accumulated ones:
\* merge(globals, commonGlobals).
LoadGlobalsReturnsContextWins(c) ==
  /\ call[c].pc = "fold"
  /\ call[c].idx > Len(call[c].apps)
  /\ call' = [call EXCEPT ![c].pc = "done",
                          ![c].result = merge(call[c].acc, Seen(call[c].commonGlobals))]
  /\ UNCHANGED << files, cwd, chdirs, lookups, imports, memo, loader, heap, logger >>
  /\ UNCHANGED << validateVars, layerVars >>

\* return merge(commonGlobals, globals): commonGlobals is merged into in
\* place and returned; so are the objects it holds by reference.
LoadGlobalsReturns(c) ==
  /\ call[c].pc = "fold"
  /\ call[c].idx > Len(call[c].apps)
  /\ LET globals == call[c].acc
         merged == merge(call[c].commonGlobals, globals)
     IN /\ call' = [call EXCEPT ![c].pc = "done",
                                ![c].commonGlobals = merged,
                                ![c].result = merged]
        /\ heap' = IF Prop(globals, "config").k = "obj"
                   THEN [heap EXCEPT ![call[c].cfg] = merge(@, globals.o["config"])]
                   ELSE heap
        /\ logger' = IF Prop(globals, "log").k = "obj"
                     THEN [logger EXCEPT !.props = merge(@, globals.o["log"])]
                     ELSE logger
  /\ UNCHANGED << files, cwd, chdirs, lookups, imports, memo, loader >>
  /\ UNCHANGED << validateVars, layerVars >>

Next ==
  \/ \E c \in Calls : LoadGlobals(c)
  \/ ImportResolves
  \/ FactoryResolves
  \/ \E c \in Calls : ResumeWithConfig(c)
  \/ \E c \in Calls : FoldInvoke(c)
  \/ \E c \in Calls : FoldMerge(c)
  \/ \E c \in Calls : LoadGlobalsReturns(c)

Spec == Init /\ [][Next]_vars

(***************************************************************************)
(* The fold alone: one loadGlobals call over every list of apps.           *)
(***************************************************************************)
A1 == Rec1("a", Num(1))
A2B == Rec2("a", Num(2), "b", Num(1))

\* What an app's factory may return.
Contributions ==
  { XY, X1, Rec1("x", Undef), Rec1("x", A1), Rec2("x", A2B, "y", Num(1)) }

FoldApps ==
  {App("app", Returns(v)) : v \in Contributions}
    \cup {AppWithoutGlobals("app"), App("app", Throws("app failed"))}

RECURSIVE SeqsUpTo(_, _)
SeqsUpTo(S, n) ==
  IF n = 0 THEN {<<>>}
  ELSE LET shorter == SeqsUpTo(S, n - 1)
       IN shorter \cup {Append(q, x) : q \in {r \in shorter : Len(r) = n - 1}, x \in S}

FoldConfigs == {Config(apps, Str("INFO"), Str("json")) : apps \in SeqsUpTo(FoldApps, MaxApps)}

OnlyCall(arg) == [c \in Calls |-> IF c = 1 THEN arg ELSE Undef]

InitFold ==
  /\ \E config \in FoldConfigs :
        \/ InitProcess(World(NoFile, NoFile), OnlyCall(config))
        \/ InitProcess(World(Module(Fn(Returns(config))), NoFile), OnlyCall(Str(environment)))
  /\ InitValidateIdle
  /\ InitLayersIdle

SpecFold == InitFold /\ [][Next]_vars

(***************************************************************************)
(* One loadGlobals call whose apps contribute under the keys of the common *)
(* globals.                                                                *)
(***************************************************************************)
\* What an app's factory may return under config, log, node and constants.
ContextContributions ==
  { XY,
    Rec1("constants", Rec2("environment", Undef, "workingDirectory", Str("other"))),
    Rec1("constants", Num(5)),
    Rec1("log", Rec1("levels", Rec1("SILENT", Num(9)))),
    Rec1("log", Undef),
    Rec1("node", Rec2("fs", Str("fake"), "extra", Num(1))),
    Rec1("config", Rec1(CoreNamespaceRoot, Rec1("logLevel", Num(5)))) }

ContextApps ==
  {App("app", Returns(v)) : v \in ContextContributions} \cup {AppWithoutGlobals("app")}

ContextConfigs ==
  {Config(apps, Str("INFO"), Str("json")) : apps \in SeqsUpTo(ContextApps, MaxApps)}

InitContext ==
  /\ \E config \in ContextConfigs :
        \/ InitProcess(World(NoFile, NoFile), OnlyCall(config))
        \/ InitProcess(World(Module(Fn(Returns(config))), NoFile), OnlyCall(Str(environment)))
  /\ InitValidateIdle
  /\ InitLayersIdle

SpecContext == InitContext /\ [][Next]_vars

(***************************************************************************)
(* One loadGlobals call whose apps may return the log they were given.     *)
(***************************************************************************)
MaxSharedApps == 3

\* What an app's factory may return: the log of the common globals as it
\* got it, a record under log, or keys of its own.
SharedContributions ==
  { Rec1("log", Ref(LoggerId)), Rec1("log", Rec1("levels", Rec1("SILENT", Num(9)))), XY }

SharedApps == {App("app", Returns(v)) : v \in SharedContributions}

SharedConfigs ==
  {Config(apps, Str("INFO"), Str("json")) : apps \in SeqsUpTo(SharedApps, MaxSharedApps)}

InitShared ==
  /\ \E config \in SharedConfigs :
        \/ InitProcess(World(NoFile, NoFile), OnlyCall(config))
        \/ InitProcess(World(Module(Fn(Returns(config))), NoFile), OnlyCall(Str(environment)))
  /\ InitValidateIdle
  /\ InitLayersIdle

SpecShared == InitShared /\ [][Next]_vars

(***************************************************************************)
(* validateConfig alone, over candidate configs.                           *)
(***************************************************************************)
Absent == [k |-> "absent"]

\* An object of the given keys, the absent ones left out.
ObjOf(keys, value) == Obj([key \in {x \in keys : value[x] # Absent} |-> value[key]])

CandidateApps ==
  { <<>>, <<AppWithoutGlobals("app1")>>, <<EmptyObj>>,
    <<AppWithoutGlobals("app1"), EmptyObj>>, <<AppWithoutGlobals("")>>,
    <<Rec1("name", Undef), EmptyObj>> }

Opt(S) == {Absent} \cup S

CandidateRoots ==
  {Absent} \cup
  { ObjOf({"apps", "layerOrder", "logLevel", "logFormat"},
          [apps |-> a, layerOrder |-> l, logLevel |-> ll, logFormat |-> lf]) :
      a \in Opt({Str("apps")} \cup {Arr(q) : q \in CandidateApps}),
      l \in Opt({Str("layers"), EmptyArr, Arr(<<Str("services")>>)}),
      ll \in Opt({Str("INFO"), Num(2)}),
      lf \in Opt({Str("json"), Num(1)}) }

Candidates ==
  { ObjOf({"environment", "systemName", CoreNamespaceRoot},
          ("environment" :> e) @@ ("systemName" :> n) @@ (CoreNamespaceRoot :> r)) :
      e \in Opt({Str(environment)}),
      n \in Opt({Str("sys")}),
      r \in CandidateRoots }

InitProcessIdle == InitProcess(World(NoFile, NoFile), [c \in Calls |-> Undef])

InitValidate ==
  /\ InitProcessIdle
  /\ candidate \in Candidates
  /\ verdict = "idle"
  /\ InitLayersIdle

ValidateConfig ==
  /\ verdict = "idle"
  /\ verdict' = validateConfig(candidate)
  /\ UNCHANGED << candidate, procVars, layerVars >>

NextValidate == ValidateConfig

SpecValidate == InitValidate /\ [][NextValidate]_vars

(***************************************************************************)
(* getLayersUnavailable alone, over lists of layers.                       *)
(***************************************************************************)
LayerNames == {"services", "features", "entries", "toString"}
Queries == LayerNames \cup {"z"}

Distinct(q) == \A i, j \in 1..Len(q) : i # j => q[i] # q[j]

InitLayers ==
  /\ InitProcessIdle
  /\ InitValidateIdle
  /\ layers \in {q \in SeqsUpTo(LayerNames, MaxLayers) : Distinct(q)}
  /\ asked = ""
  /\ answer = Returns(Undef)

\* One call of the function getLayersUnavailable(allLayers) returned.
Lookup(layer) ==
  /\ asked' = layer
  /\ answer' = getLayersUnavailable(layers, layer)
  /\ UNCHANGED << layers, procVars, validateVars >>

NextLayers == \E layer \in Queries : Lookup(layer)

SpecLayers == InitLayers /\ [][NextLayers]_vars

(***************************************************************************)
(* Properties.                                                             *)
(***************************************************************************)
Last(q) == q[Len(q)]
IsPrefix(p, q) == Len(p) <= Len(q) /\ \A i \in 1..Len(p) : p[i] = q[i]
UpTo(n) == [i \in 1..n |-> i]

RECURSIVE FactoryApps(_, _)
FactoryApps(apps, n) ==
  IF n = 0 THEN <<>>
  ELSE IF Has(apps[n], "globals") THEN Append(FactoryApps(apps, n - 1), n)
  ELSE FactoryApps(apps, n - 1)

\* C2: within one loadGlobals call the factories invoked so far are the
\* first of the apps that declare one, in declared order and once each, all
\* of them when the call has returned; a factory is invoked only when the
\* contributions of all apps before it have been merged, so while one is in
\* flight no other factory of the call is.
C2_FoldIsSequential ==
  \A c \in Calls :
    LET ci == call[c]
    IN /\ IsPrefix(ci.invoked, FactoryApps(ci.apps, Len(ci.apps)))
       /\ ci.pc = "done" => ci.invoked = FactoryApps(ci.apps, Len(ci.apps))
       /\ ci.merged = UpTo(Len(ci.merged))
       /\ ci.invoked # <<>> => Len(ci.merged) >= Last(ci.invoked) - 1
       /\ ci.pc = "awaitDep" => Len(ci.merged) = ci.idx - 1

\* A call has returned after invoking two factories one after the other.
C2_Witness ==
  \E c \in Calls : call[c].pc = "done" /\ Len(call[c].invoked) >= 2

\* C4: when the factory of app k throws or rejects, loadGlobals rejects with
\* that error, k is the last factory the call ever invokes, and the call
\* returns no record.
C4_FailedFactoryAbortsFold ==
  \A c \in Calls :
    \A i \in 1..Len(call[c].invoked) :
      LET k == call[c].invoked[i]
          outcome == callFunc(Prop(Prop(call[c].apps[k], "globals"), "create"))
      IN outcome.throws =>
           /\ k = Last(call[c].invoked)
           /\ call[c].pc \in {"awaitDep", "failed"}
           /\ call[c].pc = "failed" => call[c].err = outcome.v.s
           /\ call[c].result = Undef
           /\ call[c].idx = k

\* A call has failed with the error of its second app, the third never invoked.
C4_Witness ==
  \E c \in Calls :
    /\ call[c].pc = "failed"
    /\ call[c].err = "app2 failed"
    /\ call[c].invoked = <<2>>
    /\ Len(call[c].apps) = 3

\* C5: after successful configureLogging calls a logged message is rendered
\* by one formatter application, that of the format configured last.
C5_OnlyLastFormatRenders ==
  logger.methodFactory # <<>> => Rendering(logger) = << Last(logger.methodFactory) >>

\* The default export of the module that was imported.
Imported == Prop(files[imports[1]], "default")

\* C6: loadConfig succeeds with the product of a module's factory and with
\* the content of a module whose content is a valid Config that is not callable.
C6_BothModuleShapesLoad ==
  (loader.pc = "done" /\ imports # <<>>) =>
    /\ (Imported.k = "fn" /\ ~Imported.b.throws /\ validateConfig(Imported.b.v) = Ok)
         => memo.state = "resolved"
    /\ (Imported.k # "fn" /\ validateConfig(Imported) = Ok)
         => memo.state = "resolved"

\* The config a call's await at the head of loadGlobals settles with.
ResolvedConfig(c) == heap[IF call[c].viaLoader THEN LoadedId ELSE c]

\* C9: a loadGlobals call whose resolved config fails validation fails with
\* the validation error in the step that validates it; that step leaves the
\* process-wide logger as it is, the call has not called configureLogging nor
\* invoked a factory, and it does nothing afterwards.
C9_InvalidConfigFailsBeforeLogging ==
  [][\A c \in Calls :
       /\ ( /\ call[c].pc = "awaitConfig"
            /\ call[c].viaLoader => memo.state = "resolved"
            /\ validateConfig(ResolvedConfig(c)) # Ok
            /\ call'[c] # call[c] )
          => /\ call'[c].pc = "failed"
             /\ call'[c].err = validateConfig(ResolvedConfig(c))
             /\ logger' = logger
             /\ ~call'[c].configured
             /\ call'[c].invoked = <<>>
       /\ call[c].pc = "failed" => call'[c] = call[c]
    ]_vars

\* A call given a config without systemName has failed on it.
C9_Witness ==
  \E c \in Calls :
    /\ call[c].pc = "failed"
    /\ ~call[c].viaLoader
    /\ call[c].err = "systemName was not found in config"
    /\ call[c].err = validateConfig(heap[c])

Started(c) == call[c].pc \notin {"idle", "unused"}

\* C10: a loadGlobals call given a config object that has a root layerOrder
\* uses that object and does not call the config loader, so that while no
\* call was given anything else there has been no working-directory change,
\* no path lookup and no import; a call given a string calls the loader.
C10_ConfigArgumentSkipsLoader ==
  /\ \A c \in Calls :
       Started(c) =>
         /\ (call[c].arg.k = "obj"
               /\ get(call[c].arg, <<CoreNamespaceRoot, "layerOrder">>).k = "arr")
              => ~call[c].viaLoader /\ call[c].cfg = c
         /\ call[c].arg.k = "str" => call[c].viaLoader /\ call[c].cfg # c
  /\ (\A c \in Calls : ~call[c].viaLoader) =>
       /\ chdirs = 0 /\ lookups = 0 /\ imports = <<>>
       /\ cwd = "start" /\ memo.state = "empty" /\ loader.pc = "none"

\* One call was given a config of no layers and has returned or failed on
\* it, another was given the environment name and went to the loader.
C10_Witness ==
  \E c1, c2 \in Calls :
    /\ call[c1].arg.k = "obj" /\ call[c1].pc \in {"done", "failed"}
    /\ get(call[c1].arg, <<CoreNamespaceRoot, "layerOrder">>) = EmptyArr
    /\ ~call[c1].viaLoader
    /\ call[c2].arg.k = "str" /\ call[c2].viaLoader /\ chdirs = 1

\* The paths to the leaves (the values that are not records) of a record.
LeafPaths(v) ==
  {<<key>> : key \in {x \in Keys(v) : v.o[x].k # "obj"}}
    \cup UNION {{<<key, sub>> : sub \in {x \in Keys(v.o[key]) : v.o[key].o[x].k # "obj"}} :
                  key \in {x \in Keys(v) : v.o[x].k = "obj"}}

\* What app i of a call returns: nothing when it declares no factory.
Contribution(c, i) == getGlobals(call[c].apps[i]).outcome.v

ContributedLeaves(c) ==
  UNION {LeafPaths(Contribution(c, i)) : i \in 1..Len(call[c].apps)}

LastWith(c, path) ==
  CHOOSE i \in 1..Len(call[c].apps) :
    /\ path \in LeafPaths(Contribution(c, i))
    /\ \A j \in (i + 1)..Len(call[c].apps) : path \notin LeafPaths(Contribution(c, j))

\* No app has a record where the path has a leaf, nor a leaf above the path.
LeafInEveryApp(c, path) ==
  \A i \in 1..Len(call[c].apps) :
    /\ get(Contribution(c, i), path).k # "obj"
    /\ Len(path) = 2 => <<path[1]>> \notin LeafPaths(Contribution(c, i))

DefinedLeaf(v, path) == path \in LeafPaths(v) /\ get(v, path) # Undef

DefinedLeaves(c) ==
  {path \in ContributedLeaves(c) :
     \E i \in 1..Len(call[c].apps) : DefinedLeaf(Contribution(c, i), path)}

LastDefining(c, path) ==
  CHOOSE i \in 1..Len(call[c].apps) :
    /\ DefinedLeaf(Contribution(c, i), path)
    /\ \A j \in (i + 1)..Len(call[c].apps) : ~DefinedLeaf(Contribution(c, j), path)

\* App j puts a record where the path has a leaf, or a leaf above the path.
Replaces(c, j, path) ==
  \/ get(Contribution(c, j), path).k = "obj"
  \/ Len(path) = 2 /\ DefinedLeaf(Contribution(c, j), <<path[1]>>)

RootOf(config) ==
  IF Has(config, CoreNamespaceRoot) /\ config.o[CoreNamespaceRoot].k = "obj"
  THEN config.o[CoreNamespaceRoot] ELSE EmptyObj

IsArrayAt(config, key) == Has(RootOf(config), key) /\ RootOf(config).o[key].k = "arr"
IsStringAt(config, key) == Has(RootOf(config), key) /\ RootOf(config).o[key].k = "str"

\* Whether a candidate violates check i of the nine.
Violates(i, config) ==
  CASE i = 1 -> ~Has(config, "environment")
    [] i = 2 -> ~Has(config, "systemName")
    [] i = 3 -> ~Has(RootOf(config), "apps")
    [] i = 4 -> ~IsArrayAt(config, "apps")
    [] i = 5 -> ~Has(RootOf(config), "layerOrder")
    [] i = 6 -> ~IsArrayAt(config, "layerOrder")
    [] i = 7 -> /\ IsArrayAt(config, "apps")
                /\ \E n \in 1..Len(RootOf(config).o["apps"].a) :
                     LET app == RootOf(config).o["apps"].a[n]
                     IN ~Has(app, "name") \/ app.o["name"] = Undef
    [] i = 8 -> ~IsStringAt(config, "logLevel")
    [] i = 9 -> ~IsStringAt(config, "logFormat")

CheckError(i) ==
  CASE i = 1 -> "environment was not found in config"
    [] i = 2 -> "systemName was not found in config"
    [] i = 3 -> "@node-in-layers/core.apps was not found in config"
    [] i = 4 -> "@node-in-layers/core.apps must be an array"
    [] i = 5 -> "@node-in-layers/core.layerOrder was not found in config"
    [] i = 6 -> "@node-in-layers/core.layerOrder must be an array"
    [] i = 7 -> "A configured app does not have a name."
    [] i = 8 -> "@node-in-layers/core.logLevel must be of type string"
    [] i = 9 -> "@node-in-layers/core.logFormat must be of type string"

\* C7: validateConfig throws the error of the first of the nine checks, in
\* their order, that the candidate violates, and returns without throwing
\* exactly when the candidate violates none.
C7_FirstViolatedCheckThrows ==
  verdict # "idle" =>
    IF \E i \in 1..9 : Violates(i, candidate)
    THEN verdict = CheckError(CHOOSE i \in 1..9 :
                                /\ Violates(i, candidate)
                                /\ \A j \in 1..(i - 1) : ~Violates(j, candidate))
    ELSE verdict = Ok

\* A candidate with a nameless app and without logLevel and logFormat has
\* been rejected for the app.
C7_Witness ==
  /\ verdict = CheckError(7)
  /\ Violates(8, candidate) /\ Violates(9, candidate)

\* C8: for a list of distinct layers the lookup of the layer at position i
\* gives the layers after it, in order (none for the last), and the lookup of
\* any name that is not in the list throws an error naming it.
C8_SuffixOrThrows ==
  asked # "" =>
    IF \E i \in 1..Len(layers) : layers[i] = asked
    THEN LET i == CHOOSE n \in 1..Len(layers) : layers[n] = asked
         IN answer = Returns(Arr([j \in 1..(Len(layers) - i) |-> Str(layers[i + j])]))
    ELSE answer = Throws(asked \o " is not a valid layer choice")

(***************************************************************************)
(* C11: resolution of the config file.                                     *)
(***************************************************************************)
NoConfigFound == "Could not find a config." \o environment \o " for mjs, or js."

\* C11: once _loadConfig has looked for the file, it has imported
\* config.<env>.mjs when that file exists, config.<env>.js when only that one
\* exists, and when neither exists it has imported nothing and loadConfig is
\* rejected with the error that no config was found for the environment.
C11_MjsBeforeJsOrNoImport ==
  lookups > 0 =>
    IF files["mjs"] # NoFile THEN imports = <<"mjs">> /\ loader.path = "mjs"
    ELSE IF files["js"] # NoFile THEN imports = <<"js">> /\ loader.path = "js"
    ELSE imports = <<>> /\ memo = Rejected(NoConfigFound)

\* Both files exist and the .mjs one was imported and gave the config.
C11_Witness ==
  /\ files["mjs"] # NoFile
  /\ files["js"] # NoFile
  /\ imports = <<"mjs">>
  /\ memo.state = "resolved"


(***************************************************************************)
(* C12: the final merge of the accumulated globals over the common ones.   *)
(***************************************************************************)
\* The leaf keys of a record, at any depth, as paths.
RECURSIVE Leaves(_)
Leaves(v) ==
  IF v.k = "obj"
  THEN UNION {{<<key>> \o p : p \in Leaves(v.o[key])} : key \in Keys(v)}
  ELSE {<<>>}

\* The Config a call resolved, as it was when the call got it.
ResolvedAs(c) == IF call[c].viaLoader THEN loader.pending.v ELSE call[c].arg

\* The common globals of a call as loadGlobals built them.
BuiltContext(c) ==
  Obj(("config" :> ResolvedAs(c)) @@ ("log" :> LoglevelProps)
      @@ ("node" :> getNodeServices) @@ ("constants" :> getConstants))

\* No app contributes a value at the key, nor a value that is no record at a
\* key enclosing it.
NotContributed(globals, q) ==
  /\ get(globals, q) = Undef
  /\ \A n \in 1..(Len(q) - 1) : get(globals, SubSeq(q, 1, n)).k \in {"undef", "obj"}

C13_LoadedConfigIsValid ==
  memo.state = "resolved" => validateConfig(heap[memo.v.id]) = Ok

(***************************************************************************)
(* C14: the common globals object that the factories were handed.          *)
(***************************************************************************)
ContextKeys == {"config", "log", "node", "constants"}

\* C14: the common globals object of a loadGlobals call has, from the time
\* it is built and also after the call has returned, exactly the keys
\* config, log, node and constants with the values it was built with.
C14_CommonGlobalsKeepKeysAndValues ==
  \A c \in Calls :
    call[c].commonGlobals # Undef =>
      /\ Keys(call[c].commonGlobals) = ContextKeys
      /\ call[c].commonGlobals.o["config"] = Ref(call[c].cfg)
      /\ call[c].commonGlobals.o["log"] = Ref(LoggerId)
      /\ call[c].commonGlobals.o["node"] = getNodeServices
      /\ call[c].commonGlobals.o["constants"] = getConstants

(***************************************************************************)
(* C15: what each factory is given.                                        *)
(***************************************************************************)
\* A config with its list of apps replaced.
WithApps(config, apps) ==
  Obj([key \in Keys(config) |->
         IF key = CoreNamespaceRoot
         THEN Obj([sub \in Keys(config.o[key]) |->
                     IF sub = "apps" THEN Arr(apps) ELSE config.o[key].o[sub]])
         ELSE config.o[key]])

\* C15: every factory of a loadGlobals call is given the common globals as
\* they were built from the config, with nothing of what earlier apps
\* returned; but for the list of apps in the config, the argument is the same
\* whatever the apps of the list are and return.
C15_FactoryGetsOnlyCommonGlobals ==
  \A c \in Calls :
    \A i \in 1..Len(call[c].passed) :
      LET given == call[c].passed[i]
      IN /\ given = BuiltContext(c)
         /\ Keys(given) = ContextKeys
         /\ WithApps(given.o["config"], <<>>) = Config(<<>>, Str("INFO"), Str("json"))
         /\ given.o["log"] = LoglevelProps
         /\ given.o["node"] = getNodeServices
         /\ given.o["constants"] = getConstants

(***************************************************************************)
(* C16: what validateConfig accepts.                                       *)
(***************************************************************************)
\* The invariant of the data model.
DataModelInvariant(config) ==
  /\ Has(config, "environment")
  /\ Has(config, "systemName")
  /\ IsArrayAt(config, "apps")
  /\ IsArrayAt(config, "layerOrder")
  /\ IsStringAt(config, "logLevel")
  /\ IsStringAt(config, "logFormat")
  /\ \A n \in 1..Len(RootOf(config).o["apps"].a) :
       LET name == Prop(RootOf(config).o["apps"].a[n], "name")
       IN name.k = "str" /\ name.s # ""

\* C16: a config that validateConfig accepts has environment and systemName,
\* root apps and layerOrder that are arrays, logLevel and logFormat that are
\* strings, and a non-empty name for every app.
C16_AcceptedConfigSatisfiesDataModel ==
  verdict = Ok => DataModelInvariant(candidate)

(***************************************************************************)
(* C17: the Config that loadGlobals resolved.                              *)
(***************************************************************************)
\* C17: the Config object a loadGlobals call resolved, given by the caller or
\* loaded, stays as it was when the call got it.
C17_ResolvedConfigUnchanged ==
  \A c \in Calls :
    call[c].cfg # NoId => heap[call[c].cfg] = ResolvedAs(c)


(***************************************************************************)
(* C18: configureLogging failing for the format.                           *)
(***************************************************************************)
RootLevel(c) == get(ResolvedConfig(c), <<CoreNamespaceRoot, "logLevel">>)
RootFormat(c) == get(ResolvedConfig(c), <<CoreNamespaceRoot, "logFormat">>)

\* A step in which the configureLogging of call c fails because the
\* logFormat of its config is none of json, simple and full.
FailsForFormat(c) ==
  /\ call[c].pc = "awaitConfig"
  /\ call'[c].pc = "failed"
  /\ call'[c].configured
  /\ RootLevel(c).k = "str" /\ LevelNumber(RootLevel(c).s) >= 0
  /\ RootFormat(c).k = "str" /\ RootFormat(c).s \notin LogFormats

\* C18 (as stated): a configureLogging that fails for an unsupported
\* logFormat throws an error naming the format and leaves the process-wide
\* logger as it was, threshold and formatter.
C18_FailureLeavesLoggerAsBefore ==
  [][\A c \in Calls :
       FailsForFormat(c) =>
         /\ call'[c].err = "LogFormat " \o RootFormat(c).s \o " is not supported"
         /\ logger' = logger
    ]_vars

\* C18 (amended): a configureLogging that fails for an unsupported logFormat
\* throws an error naming the format and leaves the formatter of the
\* process-wide logger as it was; the threshold of the logger has been set
\* from the logLevel of the config.
C18_FailureKeepsFormatterSetsThreshold ==
  [][\A c \in Calls :
       FailsForFormat(c) =>
         /\ call'[c].err = "LogFormat " \o RootFormat(c).s \o " is not supported"
         /\ logger'.methodFactory = logger.methodFactory
         /\ logger'.props = logger.props
         /\ logger'.level = LevelNumber(RootLevel(c).s)
    ]_vars

\* The only call made failed for the format xml: no formatter is installed
\* and the threshold is the TRACE of its config, not the initial one.
C18_Witness ==
  /\ call[1].pc = "failed"
  /\ call[1].err = "LogFormat xml is not supported"
  /\ call[2].pc = "idle"
  /\ logger.methodFactory = <<>>
  /\ logger.level = LevelNumber("TRACE")


====
